---- MODULE Spec2Model ----
(***************************************************************************)
(* vcard-qr-generator: the vCard formatter, the colour parser, the         *)
(* recolouring of the QR bitmap and the generate_qr request handler with   *)
(* the session it depends on (src/main.rs, src/auth.rs).                   *)
(*                                                                         *)
(* A Rust String is a sequence of characters, each a one-character TLA+    *)
(* string; Utf8Len gives a character's width in bytes, so that byte        *)
(* lengths and byte slices are computed as the code computes them.         *)
(* An Option<T> is a record [some, val].                                   *)
(***************************************************************************)
EXTENDS Integers, Sequences, FiniteSets, TLC

VARIABLES
    session,    \* the tower_sessions Session of the client: user_id, username, is_admin
    users,      \* rows of the users table
    vcards,     \* rows of the vcards table, in insertion order
    resp,       \* the response to the request in flight (NoResp: none)
    data,       \* the VCardData given to generate_vcard
    vcard,      \* the String generate_vcard returned (<<>>: not called yet)
    color_str,  \* the &str given to parse_color
    rgb,        \* what parse_color did: NotRun, Panic or an (r, g, b) triple
    qr_image,   \* the Luma bitmap code.render().build() returned (NoImage: none)
    path_user_id \* the Path(user_id) of the admin request in flight (None: none)

vars == <<session, users, vcards, resp, data, vcard, color_str, rgb, qr_image, path_user_id>>

----------------------------------------------------------------------------
(* Bounds of the model *)

\* longest first_name / last_name, in characters
MaxNameLen == 1

\* longest colour string after its leading '#'s, in characters
MaxColorLen == 6

\* most leading '#'s of a colour string
MaxHashes == 2

\* width and height of the rendered QR bitmap, in pixels
QrSide == 2

\* most bytes QrCode::new encodes, scaled down to the texts of the model
QrCapacity == 47

\* most rows of the vcards table
MaxVCards == 1

\* largest id of a row of the users table, and of a Path(user_id)
MaxUserId == 2

----------------------------------------------------------------------------
(* Option<T> *)

None == [some |-> FALSE, val |-> <<>>]

Some(v) == [some |-> TRUE, val |-> v]

\* Option::as_ref().map_or(false, |s| !s.is_empty())
IsNonEmpty(opt) == opt.some /\ opt.val # <<>>

\* Option::as_ref().unwrap_or(&String::new())
UnwrapOrEmpty(opt) == IF opt.some THEN opt.val ELSE <<>>

----------------------------------------------------------------------------
(* generate_vcard *)

\* String::from("BEGIN:VCARD\nVERSION:3.0\n")
VCardHeader ==
    <<"B","E","G","I","N",":","V","C","A","R","D","\n",
      "V","E","R","S","I","O","N",":","3",".","0","\n">>

\* format!("FN:{} {}\n", data.first_name, data.last_name)
FnLine(d) == <<"F","N",":">> \o d.first_name \o <<" ">> \o d.last_name \o <<"\n">>

\* format!("N:{};{};;;\n", data.last_name, data.first_name)
NLine(d) == <<"N",":">> \o d.last_name \o <<";">> \o d.first_name \o <<";",";",";","\n">>

\* OptLine without the is_empty test: Some("") emits a line with an empty value
OptLine_NoEmptyCheck(tag, opt) == IF opt.some THEN tag \o opt.val \o <<"\n">> ELSE <<>>

\* if let Some(v) = &field { if !v.is_empty() { push_str(&format!("<tag>{}\n", v)) } }
OptLine(tag, opt) ==
    IF opt.some
    THEN IF opt.val # <<>> THEN tag \o opt.val \o <<"\n">> ELSE <<>>
    ELSE <<>>

TagMobile == <<"T","E","L",";","T","Y","P","E","=","C","E","L","L",":">>

TagWork == <<"T","E","L",";","T","Y","P","E","=","W","O","R","K",":">>

TagEmail == <<"E","M","A","I","L",":">>

TagOrg == <<"O","R","G",":">>

TagTitle == <<"T","I","T","L","E",":">>

TagUrl == <<"U","R","L",":">>

TagAdr == <<"A","D","R",";","T","Y","P","E","=","W","O","R","K",":">>

\* has_address looking at the street alone
has_address_StreetOnly(d) == d.street.some /\ d.street.val # <<>>

\* let has_address = street non-empty || city non-empty || state non-empty
has_address(d) == IsNonEmpty(d.street) \/ IsNonEmpty(d.city) \/ IsNonEmpty(d.state)

\* format!("ADR;TYPE=WORK:;;{};{};{};;;\n", street, city, state), each unwrap_or("")
AdrValue(d) ==
    <<";",";">> \o UnwrapOrEmpty(d.street) \o <<";">> \o UnwrapOrEmpty(d.city)
        \o <<";">> \o UnwrapOrEmpty(d.state) \o <<";",";",";">>

AdrLine(d) == IF has_address(d) THEN TagAdr \o AdrValue(d) \o <<"\n">> ELSE <<>>

VCardFooter == <<"E","N","D",":","V","C","A","R","D">>

\* generate_vcard with the website pushed before the address
generate_vcard_UrlBeforeAdr(d) ==
    VCardHeader
        \o FnLine(d)
        \o NLine(d)
        \o OptLine(TagMobile, d.mobile)
        \o OptLine(TagWork, d.work)
        \o OptLine(TagEmail, d.email)
        \o OptLine(TagOrg, d.company)
        \o OptLine(TagTitle, d.role)
        \o OptLine(TagUrl, d.website)
        \o AdrLine(d)
        \o VCardFooter

generate_vcard(d) ==
    VCardHeader
        \o FnLine(d)
        \o NLine(d)
        \o OptLine(TagMobile, d.mobile)
        \o OptLine(TagWork, d.work)
        \o OptLine(TagEmail, d.email)
        \o OptLine(TagOrg, d.company)
        \o OptLine(TagTitle, d.role)
        \o AdrLine(d)
        \o OptLine(TagUrl, d.website)
        \o VCardFooter

----------------------------------------------------------------------------
(* Inputs of the formatter: every field absent, empty or set *)

RECURSIVE Repeat(_, _)
Repeat(c, n) == IF n = 0 THEN <<>> ELSE <<c>> \o Repeat(c, n - 1)

\* the strings c^0 .. c^MaxNameLen
NameValues(c) == { Repeat(c, n) : n \in 0..MaxNameLen }

\* an optional text field: absent, empty, or one of the values given
OptValues(vals) == {None, Some(<<>>)} \cup { Some(v) : v \in vals }

VCardInputs ==
    [ first_name : NameValues("J"),
      last_name  : NameValues("D"),
      mobile     : OptValues({<<"1">>}),
      work       : OptValues({<<"2">>}),
      email      : OptValues({<<"e">>}),
      company    : OptValues({<<"c">>}),
      role       : OptValues({<<"r">>}),
      street     : OptValues({<<"s">>, <<";">>}),
      city       : OptValues({<<"t">>}),
      state      : OptValues({<<"a">>}),
      website    : OptValues({<<"u">>}),
      color      : {None} ]

NoData ==
    [ first_name |-> <<>>, last_name |-> <<>>, mobile |-> None, work |-> None,
      email |-> None, company |-> None, role |-> None, street |-> None,
      city |-> None, state |-> None, website |-> None, color |-> None ]

NoResp == [handler |-> "none", status |-> "none", image |-> None]

NotRun == <<"NotRun">>

Panic == <<"Panic">>

NoImage == [width |-> 0, height |-> 0, pixels |-> <<>>]

\* a Session with no key set
EmptySession == [user_id |-> None, username |-> None, is_admin |-> None]

\* the variables a specification of one pure function leaves alone
IdleServer ==
    /\ session = EmptySession /\ users = {} /\ vcards = <<>> /\ resp = NoResp
    /\ qr_image = NoImage /\ path_user_id = None

InitVCard ==
    /\ IdleServer
    /\ data \in VCardInputs
    /\ vcard = <<>>
    /\ color_str = <<>>
    /\ rgb = NotRun

\* one call of generate_vcard(&data)
FormatVCard ==
    /\ vcard = <<>>
    /\ vcard' = generate_vcard(data)
    /\ UNCHANGED <<session, users, vcards, resp, data, color_str, rgb, qr_image, path_user_id>>

NextVCard == FormatVCard

SpecVCard == InitVCard /\ [][NextVCard]_vars

----------------------------------------------------------------------------
(* parse_color *)

\* a character of two UTF-8 bytes (U+00E9); every other character used is ASCII
EAcute == "U+00E9"

\* char::len_utf8
Utf8Len(c) == IF c = EAcute THEN 2 ELSE 1

\* str::len: the length in bytes
RECURSIVE ByteLen(_)
ByteLen(s) == IF s = <<>> THEN 0 ELSE Utf8Len(Head(s)) + ByteLen(Tail(s))

\* str::trim_start_matches('#'): every leading '#' is removed, not only the first
RECURSIVE trim_start_matches(_, _)
trim_start_matches(s, c) ==
    IF s # <<>> /\ Head(s) = c THEN trim_start_matches(Tail(s), c) ELSE s

\* the characters of s that lie wholly before byte offset n
RECURSIVE CharsBefore(_, _)
CharsBefore(s, n) ==
    IF s = <<>> \/ Utf8Len(Head(s)) > n THEN 0
    ELSE 1 + CharsBefore(Tail(s), n - Utf8Len(Head(s)))

\* str::is_char_boundary
is_char_boundary(s, n) == ByteLen(SubSeq(s, 1, CharsBefore(s, n))) = n

\* whether &s[a..b] is a slice: the index operation panics when an offset falls
\* inside a character
SliceOk(s, a, b) == is_char_boundary(s, a) /\ is_char_boundary(s, b)

\* &s[a..b]: the characters between byte offsets a and b
ByteSlice(s, a, b) == SubSeq(s, CharsBefore(s, a) + 1, CharsBefore(s, b))

\* char::to_digit(16): the value of a hexadecimal digit of either case, or -1
to_digit(c) ==
    CASE c = "0" -> 0  [] c = "1" -> 1  [] c = "2" -> 2  [] c = "3" -> 3
      [] c = "4" -> 4  [] c = "5" -> 5  [] c = "6" -> 6  [] c = "7" -> 7
      [] c = "8" -> 8  [] c = "9" -> 9
      [] c \in {"a", "A"} -> 10  [] c \in {"b", "B"} -> 11  [] c \in {"c", "C"} -> 12
      [] c \in {"d", "D"} -> 13  [] c \in {"e", "E"} -> 14  [] c \in {"f", "F"} -> 15
      [] OTHER -> -1

ParseErr == [ok |-> FALSE, val |-> 0]

\* the digit loop of from_str_radix: acc * 16 + digit, an error on a character
\* that is no digit or on a value past u8::MAX
RECURSIVE ParseDigits(_, _)
ParseDigits(digits, acc) ==
    IF digits = <<>> THEN [ok |-> TRUE, val |-> acc]
    ELSE IF to_digit(Head(digits)) < 0 THEN ParseErr
    ELSE IF acc * 16 + to_digit(Head(digits)) > 255 THEN ParseErr
    ELSE ParseDigits(Tail(digits), acc * 16 + to_digit(Head(digits)))

\* u8::from_str_radix(src, 16): the empty string and a lone sign are errors, one
\* leading '+' is accepted, '-' is no sign of an unsigned type
from_str_radix(src) ==
    IF src = <<>> \/ src = <<"+">> \/ src = <<"-">> THEN ParseErr
    ELSE IF Head(src) = "+" THEN ParseDigits(Tail(src), 0)
    ELSE ParseDigits(src, 0)

\* Result::unwrap_or(0)
unwrap_or_0(res) == IF res.ok THEN res.val ELSE 0

\* u8::from_str_radix(&hex[a..b], 16).unwrap_or(0)
Component(hex, a, b) == unwrap_or_0(from_str_radix(ByteSlice(hex, a, b)))

\* parse_color without trim_start_matches: "#RRGGBB" is seven bytes long
parse_color_NoStrip(s) ==
    IF ByteLen(s) = 6
    THEN IF SliceOk(s, 0, 2) /\ SliceOk(s, 2, 4) /\ SliceOk(s, 4, 6)
         THEN <<Component(s, 0, 2), Component(s, 2, 4), Component(s, 4, 6)>>
         ELSE Panic
    ELSE <<0, 0, 0>>

parse_color(s) ==
    LET hex == trim_start_matches(s, "#")
    IN  IF ByteLen(hex) = 6
        THEN IF SliceOk(hex, 0, 2) /\ SliceOk(hex, 2, 4) /\ SliceOk(hex, 4, 6)
             THEN <<Component(hex, 0, 2), Component(hex, 2, 4), Component(hex, 4, 6)>>
             ELSE Panic
        ELSE <<0, 0, 0>>

----------------------------------------------------------------------------
(* Inputs of the colour parser: leading '#'s, then hexadecimal digits of both
   cases, a letter that is no digit, a sign and a two-byte character *)

ColorAlphabet == {"0", "F", "a", "G", "+", EAcute}

\* h leading '#'s, then n characters of the alphabet
ColorInput(h, body) == Repeat("#", h) \o body

InitColor ==
    /\ IdleServer
    /\ data = NoData
    /\ vcard = <<>>
    /\ \E h \in 0..MaxHashes, n \in 0..MaxColorLen :
          \E body \in [1..n -> ColorAlphabet] : color_str = ColorInput(h, body)
    /\ rgb = NotRun

\* one call of parse_color(color_str)
ParseColor ==
    /\ rgb = NotRun
    /\ rgb' = parse_color(color_str)
    /\ UNCHANGED <<session, users, vcards, resp, data, vcard, color_str, qr_image, path_user_id>>

NextColor == ParseColor

SpecColor == InitColor /\ [][NextColor]_vars

----------------------------------------------------------------------------
(* auth.rs: users, passwords and the session *)

\* bcrypt::hash(password, 12), the salt left out
hash_password(password) == <<"bcrypt", password>>

\* bcrypt::verify(password, hash).unwrap_or(false)
verify_password(password, hash) == hash = <<"bcrypt", password>>

\* the account the users migration creates (username=admin, password=admin)
DefaultAdmin ==
    [id |-> 1, username |-> "admin", password_hash |-> hash_password("admin"),
     is_admin |-> TRUE]

\* get_current_user looking at the user_id key alone
get_current_user_IdOnly(s) ==
    IF s.user_id.some
    THEN Some([id |-> s.user_id.val, username |-> s.username.val,
               is_admin |-> s.is_admin.val])
    ELSE None

\* the UserInfo of a session that holds all three keys, else None
get_current_user(s) ==
    IF s.user_id.some /\ s.username.some /\ s.is_admin.some
    THEN Some([id |-> s.user_id.val, username |-> s.username.val,
               is_admin |-> s.is_admin.val])
    ELSE None

\* SELECT ... FROM users WHERE username = ?, then verify_password; a database
\* error, an unknown name and a wrong password are all Err
authenticate_user(table, username, password, db_ok) ==
    LET found == { u \in table : u.username = username }
    IN  IF db_ok /\ found # {} /\ verify_password(password, (CHOOSE u \in found : TRUE).password_hash)
        THEN Some(CHOOSE u \in found : TRUE)
        ELSE None

\* the three session.insert calls in order, each ending the function with `?`
\* when it fails: fail_at is the insert that fails (0: none)
set_user_session(s, user, fail_at) ==
    [ user_id  |-> IF fail_at \in {0, 2, 3} THEN Some(user.id) ELSE s.user_id,
      username |-> IF fail_at \in {0, 3} THEN Some(user.username) ELSE s.username,
      is_admin |-> IF fail_at = 0 THEN Some(user.is_admin) ELSE s.is_admin ]

\* session.delete()
clear_session(s) == EmptySession

----------------------------------------------------------------------------
(* The QR bitmap and its recolouring *)

Positions(w, h) == (0..(w - 1)) \X (0..(h - 1))

\* the bitmaps code.render::<Luma<u8>>().build() can give: square, each pixel
\* dark (0) or light (255)
QrImages ==
    { [width |-> QrSide, height |-> QrSide, pixels |-> px] :
        px \in [Positions(QrSide, QrSide) -> {0, 255}] }

\* Recolor with the test of the pixel inverted: the light pixels get the colour
Recolor_Inverted(img, colour) ==
    [ format |-> "Rgb8",
      width  |-> img.width,
      height |-> img.height,
      pixels |-> [ p \in Positions(img.width, img.height) |->
                     IF img.pixels[p] # 0 THEN colour ELSE <<255, 255, 255>> ] ]

\* ImageBuffer::from_fn(width, height, |x, y| if pixel[0] == 0 { Rgb([r, g, b]) }
\* else { Rgb([255, 255, 255]) }), as DynamicImage::ImageRgb8
Recolor(img, colour) ==
    [ format |-> "Rgb8",
      width  |-> img.width,
      height |-> img.height,
      pixels |-> [ p \in Positions(img.width, img.height) |->
                     IF img.pixels[p] = 0 THEN colour ELSE <<255, 255, 255>> ] ]

\* DynamicImage::ImageLuma8(qr_image)
AsLuma8(img) ==
    [format |-> "Luma8", width |-> img.width, height |-> img.height, pixels |-> img.pixels]

\* QrCode::new(vcard_content.as_bytes()) is Err when the bytes exceed the capacity
QrEncodes(content) == ByteLen(content) <= QrCapacity

----------------------------------------------------------------------------
(* The request handlers *)

Response(handler, status, image) ==
    [handler |-> handler, status |-> status, image |-> image]

IdleLocals ==
    /\ data = NoData /\ vcard = <<>> /\ color_str = <<>> /\ rgb = NotRun
    /\ qr_image = NoImage /\ path_user_id = None

Init ==
    /\ session = EmptySession
    /\ users = {DefaultAdmin}
    /\ vcards = <<>>
    /\ resp = NoResp
    /\ IdleLocals

\* POST /api/login
login_handler(username, password, db_ok, fail_at) ==
    LET user == authenticate_user(users, username, password, db_ok)
    IN  /\ resp = NoResp
        /\ IF user.some
           THEN /\ session' = set_user_session(session, user.val, fail_at)
                /\ resp' = Response("login_handler",
                                    IF fail_at = 0 THEN "OK" ELSE "INTERNAL_SERVER_ERROR",
                                    None)
           ELSE /\ session' = session
                /\ resp' = Response("login_handler", "UNAUTHORIZED", None)
        /\ UNCHANGED <<users, vcards, data, vcard, color_str, rgb, qr_image, path_user_id>>

\* POST /api/logout
logout_handler ==
    /\ resp = NoResp
    /\ session' = clear_session(session)
    /\ resp' = Response("logout_handler", "OK", None)
    /\ UNCHANGED <<users, vcards, data, vcard, color_str, rgb, qr_image, path_user_id>>

\* POST /api/generate with body d; db_ok: the INSERT succeeds; img: the bitmap
\* the QR renderer builds
generate_qr(d, db_ok, img) ==
    /\ resp = NoResp
    /\ (get_current_user(session).some /\ db_ok) => Len(vcards) < MaxVCards
    /\ data' = d
    /\ UNCHANGED <<session, users, path_user_id>>
    /\ IF ~get_current_user(session).some
       THEN /\ resp' = Response("generate_qr", "UNAUTHORIZED", None)
            /\ UNCHANGED <<vcards, vcard, color_str, rgb, qr_image>>
       ELSE IF ~db_ok
       THEN /\ resp' = Response("generate_qr", "INTERNAL_SERVER_ERROR", None)
            /\ UNCHANGED <<vcards, vcard, color_str, rgb, qr_image>>
       ELSE /\ vcards' = Append(vcards, d)
            /\ vcard' = generate_vcard(d)
            /\ IF ~QrEncodes(generate_vcard(d))
               THEN /\ resp' = Response("generate_qr", "INTERNAL_SERVER_ERROR", None)
                    /\ UNCHANGED <<color_str, rgb, qr_image>>
               ELSE /\ qr_image' = img
                    /\ IF d.color.some
                       THEN /\ color_str' = d.color.val
                            /\ rgb' = parse_color(d.color.val)
                            /\ resp' = IF parse_color(d.color.val) = Panic
                                       THEN Response("generate_qr", "PANIC", None)
                                       ELSE Response("generate_qr", "OK",
                                                Some(Recolor(img, parse_color(d.color.val))))
                       ELSE /\ resp' = Response("generate_qr", "OK", Some(AsLuma8(img)))
                            /\ UNCHANGED <<color_str, rgb>>

\* the client reads the response; the handler's locals are gone
Receive ==
    /\ resp # NoResp
    /\ resp' = NoResp
    /\ data' = NoData
    /\ vcard' = <<>>
    /\ color_str' = <<>>
    /\ rgb' = NotRun
    /\ qr_image' = NoImage
    /\ path_user_id' = None
    /\ UNCHANGED <<session, users, vcards>>

LoginNames == {"admin", "guest"}

LoginPasswords == {"admin", "wrong"}

\* request bodies: texts below, at and above the QR capacity; no colour, a
\* colour, and a colour whose second byte offset falls inside a character
GenerateInputs ==
    { [NoData EXCEPT !.first_name = n[1], !.last_name = n[2], !.color = c] :
        n \in {<<<<>>, <<>>>>, <<<<"J">>, <<>>>>, <<<<"J">>, <<"D">>>>},
        c \in {None,
               Some(<<"#", "0", "0", "0", "0", "F", "F">>),
               Some(<<"F", EAcute, "F", "F", "F">>)} }

Login ==
    \E username \in LoginNames, password \in LoginPasswords,
       db_ok \in BOOLEAN, fail_at \in {0, 1, 2, 3} :
        login_handler(username, password, db_ok, fail_at)

Logout == logout_handler

GenerateQr ==
    \E d \in GenerateInputs, db_ok \in BOOLEAN, img \in QrImages :
        generate_qr(d, db_ok, img)

Next == Login \/ Logout \/ GenerateQr \/ Receive

Spec == Init /\ [][Next]_vars

----------------------------------------------------------------------------
(* The admin handlers of the users table *)

\* AdminGate without the is_admin test: every authenticated session goes on
AdminGate_NoAdminCheck(s) == IF ~get_current_user(s).some THEN "UNAUTHORIZED" ELSE "OK"

\* get_current_user(..).ok_or(UNAUTHORIZED)?, then if !user.is_admin { FORBIDDEN }:
\* the status the handler returns with, or "OK" when it goes on
AdminGate(s) ==
    IF ~get_current_user(s).some THEN "UNAUTHORIZED"
    ELSE IF ~get_current_user(s).val.is_admin THEN "FORBIDDEN"
    ELSE "OK"

\* the username column is UNIQUE: another row than `id` holds the name
NameTaken(table, username, id) == \E u \in table : u.username = username /\ u.id # id

\* POST /api/users; hash_ok: bcrypt accepts the password; db_ok: the database
\* answers; new_id: the id the INSERT gives the row
create_user_handler(username, password, is_admin, hash_ok, db_ok, new_id) ==
    /\ resp = NoResp
    /\ (AdminGate(session) = "OK" /\ hash_ok /\ db_ok /\ ~NameTaken(users, username, 0))
          => new_id \notin { u.id : u \in users }
    /\ IF AdminGate(session) # "OK"
       THEN /\ resp' = Response("create_user_handler", AdminGate(session), None)
            /\ users' = users
       ELSE IF ~hash_ok \/ ~db_ok
       THEN /\ resp' = Response("create_user_handler", "INTERNAL_SERVER_ERROR", None)
            /\ users' = users
       ELSE IF NameTaken(users, username, 0)
       THEN /\ resp' = Response("create_user_handler", "CONFLICT", None)
            /\ users' = users
       ELSE /\ resp' = Response("create_user_handler", "OK", None)
            /\ users' = users \cup
                 {[id |-> new_id, username |-> username,
                   password_hash |-> hash_password(password), is_admin |-> is_admin]}
    /\ UNCHANGED <<session, vcards, data, vcard, color_str, rgb, qr_image, path_user_id>>

\* UPDATE users SET username = ?, is_admin = ? WHERE id = ?
SetNameAndAdmin(table, id, username, is_admin) ==
    { IF u.id = id THEN [u EXCEPT !.username = username, !.is_admin = is_admin] ELSE u :
        u \in table }

\* UPDATE users SET password_hash = ? WHERE id = ?
SetPasswordHash(table, id, hash) ==
    { IF u.id = id THEN [u EXCEPT !.password_hash = hash] ELSE u : u \in table }

\* PUT /api/users/:id; password: an Option; db_fail_at: the UPDATE the database
\* fails (0: none)
update_user_handler(id, username, password, is_admin, hash_ok, db_fail_at) ==
    /\ resp = NoResp
    /\ path_user_id' = Some(id)
    /\ IF AdminGate(session) # "OK"
       THEN /\ resp' = Response("update_user_handler", AdminGate(session), None)
            /\ users' = users
       ELSE IF db_fail_at = 1
               \/ ((\E u \in users : u.id = id) /\ NameTaken(users, username, id))
       THEN /\ resp' = Response("update_user_handler", "INTERNAL_SERVER_ERROR", None)
            /\ users' = users
       ELSE IF password.some /\ password.val # ""
       THEN IF ~hash_ok \/ db_fail_at = 2
            THEN /\ resp' = Response("update_user_handler", "INTERNAL_SERVER_ERROR", None)
                 /\ users' = SetNameAndAdmin(users, id, username, is_admin)
            ELSE /\ resp' = Response("update_user_handler", "OK", None)
                 /\ users' = SetPasswordHash(SetNameAndAdmin(users, id, username, is_admin),
                                             id, hash_password(password.val))
       ELSE /\ resp' = Response("update_user_handler", "OK", None)
            /\ users' = SetNameAndAdmin(users, id, username, is_admin)
    /\ UNCHANGED <<session, vcards, data, vcard, color_str, rgb, qr_image>>

\* delete_user_handler without the test of the caller's own id
delete_user_handler_NoSelfCheck(id, db_ok) ==
    /\ resp = NoResp
    /\ path_user_id' = Some(id)
    /\ IF AdminGate(session) # "OK"
       THEN /\ resp' = Response("delete_user_handler", AdminGate(session), None)
            /\ users' = users
       ELSE IF ~db_ok
       THEN /\ resp' = Response("delete_user_handler", "INTERNAL_SERVER_ERROR", None)
            /\ users' = users
       ELSE /\ resp' = Response("delete_user_handler", "OK", None)
            /\ users' = { u \in users : u.id # id }
    /\ UNCHANGED <<session, vcards, data, vcard, color_str, rgb, qr_image>>

\* DELETE /api/users/:id
delete_user_handler(id, db_ok) ==
    /\ resp = NoResp
    /\ path_user_id' = Some(id)
    /\ IF AdminGate(session) # "OK"
       THEN /\ resp' = Response("delete_user_handler", AdminGate(session), None)
            /\ users' = users
       ELSE IF get_current_user(session).val.id = id
       THEN /\ resp' = Response("delete_user_handler", "BAD_REQUEST", None)
            /\ users' = users
       ELSE IF ~db_ok
       THEN /\ resp' = Response("delete_user_handler", "INTERNAL_SERVER_ERROR", None)
            /\ users' = users
       ELSE /\ resp' = Response("delete_user_handler", "OK", None)
            /\ users' = { u \in users : u.id # id }
    /\ UNCHANGED <<session, vcards, data, vcard, color_str, rgb, qr_image>>

UserIds == 1..MaxUserId

\* UpdateUserRequest.password when present: empty or set
UpdatePasswords == {""} \cup LoginPasswords

CreateUser ==
    \E username \in LoginNames, password \in LoginPasswords, is_admin \in BOOLEAN,
       hash_ok \in BOOLEAN, db_ok \in BOOLEAN, new_id \in UserIds :
        create_user_handler(username, password, is_admin, hash_ok, db_ok, new_id)

UpdateUser ==
    \E id \in UserIds, username \in LoginNames, has_password \in BOOLEAN,
       p \in UpdatePasswords, is_admin \in BOOLEAN, hash_ok \in BOOLEAN,
       db_fail_at \in {0, 1, 2} :
        update_user_handler(id, username, IF has_password THEN Some(p) ELSE None,
                            is_admin, hash_ok, db_fail_at)

DeleteUser ==
    \E id \in UserIds, db_ok \in BOOLEAN : delete_user_handler(id, db_ok)

NextAdmin == Login \/ Logout \/ CreateUser \/ UpdateUser \/ DeleteUser \/ Receive

SpecAdmin == Init /\ [][NextAdmin]_vars

----------------------------------------------------------------------------
(* Reading a vCard text back: its lines, and the segments of a value *)

\* the least index >= i at which s holds c, or Len(s) + 1
RECURSIVE IndexFrom(_, _, _)
IndexFrom(s, c, i) ==
    IF i > Len(s) THEN Len(s) + 1
    ELSE IF s[i] = c THEN i
    ELSE IndexFrom(s, c, i + 1)

\* the pieces of s between the occurrences of c ("a;b" gives <<"a", "b">>, "" gives <<"">>)
RECURSIVE Split(_, _)
Split(s, c) ==
    LET k == IndexFrom(s, c, 1)
    IN  IF k > Len(s) THEN <<s>>
        ELSE <<SubSeq(s, 1, k - 1)>> \o Split(SubSeq(s, k + 1, Len(s)), c)

\* the pieces joined again with c between them, none after the last
RECURSIVE Join(_, _)
Join(pieces, c) ==
    IF Len(pieces) = 0 THEN <<>>
    ELSE IF Len(pieces) = 1 THEN pieces[1]
    ELSE pieces[1] \o <<c>> \o Join(Tail(pieces), c)

StartsWith(s, prefix) ==
    Len(s) >= Len(prefix) /\ SubSeq(s, 1, Len(prefix)) = prefix

\* the field is present and non-empty, in the words of the specification
Present(opt) == opt # None /\ opt # Some(<<>>)

\* the text a field contributes to a line: nothing when absent or empty
TextOf(opt) == IF Present(opt) THEN opt.val ELSE <<>>

OptFields ==
    {"mobile", "work", "email", "company", "role", "street", "city", "state", "website"}

\* the lines of the vCard text that start with "ADR"
AdrLinesOf(text) ==
    LET ls == Split(text, "\n")
    IN  { i \in 1..Len(ls) : StartsWith(ls[i], <<"A","D","R">>) }

----------------------------------------------------------------------------
(* Claims about generate_vcard, under SpecVCard *)

\* the line of one optional field, as the specification lists it
ExpectedOptLine(tag, opt) == IF Present(opt) THEN <<tag \o opt.val>> ELSE <<>>

\* "ADR;TYPE=WORK:;;{street};{city};{state};;;" as the specification writes it
ExpectedAdrText(d) ==
    <<"A","D","R",";","T","Y","P","E","=","W","O","R","K",":",";",";">>
        \o TextOf(d.street) \o <<";">> \o TextOf(d.city) \o <<";">> \o TextOf(d.state)
        \o <<";",";",";">>

ExpectedLines(d) ==
    << <<"B","E","G","I","N",":","V","C","A","R","D">>,
       <<"V","E","R","S","I","O","N",":","3",".","0">>,
       <<"F","N",":">> \o d.first_name \o <<" ">> \o d.last_name,
       <<"N",":">> \o d.last_name \o <<";">> \o d.first_name \o <<";",";",";">> >>
    \o ExpectedOptLine(<<"T","E","L",";","T","Y","P","E","=","C","E","L","L",":">>, d.mobile)
    \o ExpectedOptLine(<<"T","E","L",";","T","Y","P","E","=","W","O","R","K",":">>, d.work)
    \o ExpectedOptLine(<<"E","M","A","I","L",":">>, d.email)
    \o ExpectedOptLine(<<"O","R","G",":">>, d.company)
    \o ExpectedOptLine(<<"T","I","T","L","E",":">>, d.role)
    \o (IF Present(d.street) \/ Present(d.city) \/ Present(d.state)
        THEN <<ExpectedAdrText(d)>> ELSE <<>>)
    \o ExpectedOptLine(<<"U","R","L",":">>, d.website)
    \o << <<"E","N","D",":","V","C","A","R","D">> >>

OnlyNamesSet(d) == \A f \in OptFields : d[f] = None

\* C1: generate_vcard returns exactly the header, FN, N, then the lines of mobile,
\* work, email, company, role, address and website in that order, each present
\* iff its field is present and non-empty, then END:VCARD with no newline after
\* it; with only the names set the text is the five fixed lines.
C1_ExactText ==
    vcard # <<>> =>
        /\ vcard = Join(ExpectedLines(data), "\n")
        /\ vcard[Len(vcard)] = "D"
        /\ OnlyNamesSet(data) =>
              vcard = <<"B","E","G","I","N",":","V","C","A","R","D","\n",
                        "V","E","R","S","I","O","N",":","3",".","0","\n","F","N",":">>
                      \o data.first_name \o <<" ">> \o data.last_name
                      \o <<"\n","N",":">> \o data.last_name \o <<";">> \o data.first_name
                      \o <<";",";",";","\n","E","N","D",":","V","C","A","R","D">>

\* C1 witness: a text formatted from a record with every optional field set
C1_Witness ==
    /\ vcard # <<>>
    /\ \A f \in OptFields : Present(data[f])
    /\ data.first_name # <<>> /\ data.last_name # <<>>

\* C2: for each optional field that is None or Some(""), the text is the same
\* as the text of the record with that field turned into the other of the two.
C2_EmptyIsAbsent ==
    vcard # <<>> =>
        \A f \in OptFields :
            /\ data[f] = None => vcard = generate_vcard([data EXCEPT ![f] = Some(<<>>)])
            /\ data[f] = Some(<<>>) => vcard = generate_vcard([data EXCEPT ![f] = None])

\* C2 witness: a text formatted with an empty street beside a set city, and an
\* empty mobile
C2_Witness ==
    /\ vcard # <<>>
    /\ data.street = Some(<<>>)
    /\ Present(data.city)
    /\ data.mobile = Some(<<>>)
    /\ data.work = None

\* C3: the text holds an ADR line iff one of street, city, state is present and
\* non-empty; then it holds exactly one, which is
\* "ADR;TYPE=WORK:;;{street};{city};{state};;;" with an absent or empty field as
\* an empty segment, and a newline follows it.
C3_AdrLine ==
    vcard # <<>> =>
        LET ls  == Split(vcard, "\n")
            adr == AdrLinesOf(vcard)
        IN  IF Present(data.street) \/ Present(data.city) \/ Present(data.state)
            THEN /\ Cardinality(adr) = 1
                 /\ \A i \in adr : ls[i] = ExpectedAdrText(data) /\ i < Len(ls)
            ELSE adr = {}

\* C3 witness: only the street is set, as in the specification's example
C3_Witness ==
    /\ vcard # <<>>
    /\ data.street = Some(<<"s">>)
    /\ data.city = None
    /\ data.state \in {None, Some(<<>>)}
    /\ AdrLinesOf(vcard) # {}

NoSemicolon(opt) == \A i \in 1..Len(opt.val) : opt.val[i] # ";"

\* C6: when the ADR line is emitted and street, city and state hold no ';',
\* the value after "ADR;TYPE=WORK:" has exactly 7 segments separated by ';'.
C6_SevenSegments ==
    (/\ vcard # <<>>
     /\ has_address(data)
     /\ NoSemicolon(data.street) /\ NoSemicolon(data.city) /\ NoSemicolon(data.state))
    => LET ls == Split(vcard, "\n")
       IN  \A i \in AdrLinesOf(vcard) :
              Len(Split(SubSeq(ls[i], Len(TagAdr) + 1, Len(ls[i])), ";")) = 7

----------------------------------------------------------------------------
(* Claims about parse_color, under SpecColor *)

HexDigits ==
    {"0", "1", "2", "3", "4", "5", "6", "7", "8", "9",
     "a", "b", "c", "d", "e", "f", "A", "B", "C", "D", "E", "F"}

\* the string with one leading '#' removed, if it has one
StripOneHash(s) == IF s # <<>> /\ Head(s) = "#" THEN Tail(s) ELSE s

\* six hexadecimal digits, after one leading '#' is removed
IsRRGGBB(s) ==
    /\ Len(StripOneHash(s)) = 6
    /\ \A i \in 1..6 : StripOneHash(s)[i] \in HexDigits

\* the value of the two hexadecimal digits at i and i + 1
PairValue(s, i) == 16 * to_digit(s[i]) + to_digit(s[i + 1])

Returned == rgb # NotRun /\ rgb # Panic

\* C4: for a string that is not six hexadecimal digits after one leading '#' is
\* removed, parse_color returns (0, 0, 0).
C4_FallbackBlack ==
    (Returned /\ ~IsRRGGBB(color_str)) => rgb = <<0, 0, 0>>

\* C5: parse_color returns a triple of bytes for every string; it never panics.
C5_Total ==
    rgb # NotRun =>
        /\ rgb # Panic
        /\ Len(rgb) = 3
        /\ \A i \in 1..3 : rgb[i] \in 0..255

\* C7: for six hexadecimal digits RRGGBB with an optional leading '#',
\* parse_color returns the values of RR, GG and BB.
C7_ParsesRRGGBB ==
    (rgb # NotRun /\ IsRRGGBB(color_str)) =>
        LET hex == StripOneHash(color_str)
        IN  rgb = <<PairValue(hex, 1), PairValue(hex, 3), PairValue(hex, 5)>>

\* C7 witness: "#F0aF0a" has been parsed, digits of both cases behind a '#'
C7_Witness ==
    /\ color_str = <<"#", "F", "0", "a", "F", "0", "a">>
    /\ rgb = <<240, 175, 10>>

----------------------------------------------------------------------------
(* Claims about generate_qr, under Spec *)

\* C8: when a colour is supplied, the image returned has the width and height of
\* the QR bitmap and holds, at every position, the parsed (r, g, b) where the
\* bitmap is dark (0) and (255, 255, 255) elsewhere.
C8_ColoredRaster ==
    (resp.handler = "generate_qr" /\ resp.image.some /\ data.color.some) =>
        LET out == resp.image.val
        IN  /\ out.width = qr_image.width
            /\ out.height = qr_image.height
            /\ DOMAIN out.pixels = Positions(qr_image.width, qr_image.height)
            /\ Len(rgb) = 3
            /\ \A p \in DOMAIN out.pixels :
                  out.pixels[p] = IF qr_image.pixels[p] = 0 THEN rgb ELSE <<255, 255, 255>>

\* C8 witness: "#0000FF" was supplied and the image of a bitmap with a dark and
\* a light pixel came back, the dark one (0, 0, 255)
C8_Witness ==
    /\ resp.handler = "generate_qr"
    /\ resp.image.some
    /\ data.color = Some(<<"#", "0", "0", "0", "0", "F", "F">>)
    /\ qr_image.pixels[<<0, 0>>] = 0
    /\ qr_image.pixels[<<1, 0>>] = 255
    /\ resp.image.val.pixels[<<0, 0>>] = <<0, 0, 255>>
    /\ resp.image.val.pixels[<<1, 0>>] = <<255, 255, 255>>

\* C9: a generate request that is answered either persists the record and
\* returns an image, or returns an error and persists nothing.
C9_NoPartialFailure ==
    [][ (resp.handler = "none" /\ resp'.handler = "generate_qr" /\ resp'.status # "PANIC") =>
            IF resp'.status = "OK"
            THEN resp'.image.some /\ vcards' = Append(vcards, data')
            ELSE vcards' = vcards ]_vars

\* C10: once the record is stored and the formatter has run, a text over the QR
\* capacity gives an internal server error and no image, and a text within the
\* capacity gives the image: no other failure comes out of the pipeline.
C10_OnlyCapacityFails ==
    (resp.handler = "generate_qr" /\ vcard # <<>>) =>
        IF ByteLen(vcard) > QrCapacity
        THEN resp.status = "INTERNAL_SERVER_ERROR" /\ ~resp.image.some
        ELSE resp.status = "OK" /\ resp.image.some

----------------------------------------------------------------------------
(* Claims about the session, under Spec *)

\* the session holds user_id, username and is_admin
HoldsAllKeys(s) == s.user_id.some /\ s.username.some /\ s.is_admin.some

\* C11: a generate request whose session does not hold all of user_id, username
\* and is_admin returns UNAUTHORIZED, stores no row and returns no image.
C11_OnlyAuthenticatedGenerate ==
    [][ (resp.handler = "none" /\ resp'.handler = "generate_qr" /\ ~HoldsAllKeys(session)) =>
            /\ resp'.status = "UNAUTHORIZED"
            /\ ~resp'.image.some
            /\ vcards' = vcards ]_vars

\* C11 witness: a generate request was refused on a session that a failed login
\* left with the user_id key and no is_admin key, with a row already stored
C11_Witness ==
    /\ resp.handler = "generate_qr"
    /\ resp.status = "UNAUTHORIZED"
    /\ session.user_id.some
    /\ ~session.is_admin.some
    /\ Len(vcards) = 1

----------------------------------------------------------------------------
(* Claims about the admin handlers, under SpecAdmin *)

AdminHandlers == {"create_user_handler", "update_user_handler", "delete_user_handler"}

\* the session is authenticated and its is_admin key holds b
SessionAdminIs(s, b) == HoldsAllKeys(s) /\ s.is_admin.val = b

\* C12: a request to create, update or delete a user changes the users table
\* only on an authenticated session whose is_admin is true; an unauthenticated
\* one gets UNAUTHORIZED, an authenticated non-admin one FORBIDDEN, and both
\* leave the table as it was.
C12_AdminOnly ==
    [][ (resp.handler = "none" /\ resp'.handler \in AdminHandlers) =>
            /\ ~HoldsAllKeys(session) => (resp'.status = "UNAUTHORIZED" /\ users' = users)
            /\ SessionAdminIs(session, FALSE) => (resp'.status = "FORBIDDEN" /\ users' = users)
            /\ users' # users => SessionAdminIs(session, TRUE) ]_vars

\* C12 witness: an update was refused as FORBIDDEN on the session of a non-admin
\* user that an admin had created
C12_Witness ==
    /\ resp.handler = "update_user_handler"
    /\ resp.status = "FORBIDDEN"
    /\ SessionAdminIs(session, FALSE)
    /\ \E u \in users : u.id = session.user_id.val /\ ~u.is_admin

\* C13: a delete request of an admin session whose path id is the session's
\* user_id returns BAD_REQUEST and leaves the users table as it was; no delete
\* request removes the row whose id the requesting session holds.
C13_NoSelfDelete ==
    [][ (resp.handler = "none" /\ resp'.handler = "delete_user_handler") =>
            /\ (SessionAdminIs(session, TRUE) /\ path_user_id'.val = session.user_id.val)
                  => (resp'.status = "BAD_REQUEST" /\ users' = users)
            /\ \A u \in users :
                  (session.user_id.some /\ u.id = session.user_id.val) => u \in users' ]_vars

\* C13 witness: an admin's delete of the own id was refused with two rows in
\* the table, the own row among them
C13_Witness ==
    /\ resp.handler = "delete_user_handler"
    /\ resp.status = "BAD_REQUEST"
    /\ session.user_id.some
    /\ path_user_id.some
    /\ path_user_id.val = session.user_id.val
    /\ Cardinality(users) = 2
    /\ \E u \in users : u.id = path_user_id.val /\ u.is_admin

====
